---- MODULE Spec2Model ----
(***************************************************************************)
(* Model of src/main.go: the functional-options constructor                *)
(* NewOptReqParams with its With* options, and CustomHTTPRequest, which    *)
(* resolves a bearer token, builds one HTTP request and sends it.          *)
(*                                                                         *)
(* Go strings that are only copied or compared are TLA+ strings.  The keys *)
(* and values of query parameters, and raw query strings, are sequences of *)
(* one-character strings, so that url.QueryEscape, Values.Encode and       *)
(* url.ParseQuery are modelled character by character.                     *)
(***************************************************************************)
EXTENDS Integers, Sequences, FiniteSets, TLC

VARIABLES
    pc,       \* where the caller (main) is: "setup", "built", "done"
    args,     \* the url, email and passwd arguments of the CustomHTTPRequest call
    qmap,     \* contents of the caller's map q (main.go:135), shared by reference
    options,  \* the variadic argument of the NewOptReqParams call
    p,        \* the *OptReqParams the caller holds (NilParams until constructed)
    calls,    \* collaborator invocations made by CustomHTTPRequest, in order
    ret       \* what the CustomHTTPRequest call produced

vars == <<pc, args, qmap, options, p, calls, ret>>

----------------------------------------------------------------------------
(* Bounds *)

\* longest option list passed to NewOptReqParams
MaxOptions == 2

----------------------------------------------------------------------------
(* Values *)

\* Go's nil for interfaces, maps, errors and *http.Response
NIL == "nil"

\* a nil *OptReqParams
NilParams == [isNil |-> TRUE]

\* http.MethodGet, http.MethodPost
MethodGet == "GET"
MethodPost == "POST"

\* the zero value &OptReqParams{} of main.go:29
ZeroParams ==
    [isNil |-> FALSE, httpMethod |-> "", body |-> NIL, useInvalidToken |-> FALSE,
     queryParam |-> NIL, acceptHeader |-> ""]

----------------------------------------------------------------------------
(* Inputs the caller may supply *)

\* method arguments: POST (main.go:138) and a string that is no HTTP token
Methods == {MethodPost, "BAD METHOD"}
\* io.Reader arguments: nil (main.go:138) or some reader
Bodies == {NIL, "reader1"}
\* map arguments: nil or the caller's map q (main.go:138)
QueryRefs == {NIL, "q"}
AcceptHeaders == {"application/json", "text/xml"}
Emails == {"email_addr", "other_addr"}
Passwds == {"email_passwd"}

\* keys and values the caller writes into q: name=xyz, age=10 (main.go:136-137)
\* and a pair whose characters need escaping
QueryKeys == {<<"n", "a", "m", "e">>, <<"a", "&", "b">>}
QueryVals == {<<"x", "y", "z">>, <<"1", " ", "=", "%">>}

\* target URLs: without a query, with a query that already holds name=xyz, with
\* a query holding a repeated pair and a malformed piece, and one url.Parse rejects
Urls ==
    {<<"h", ":", "/", "/", "h">>,
     <<"h", ":", "/", "/", "h", "?", "n", "a", "m", "e", "=", "x", "y", "z">>,
     <<"h", ":", "/", "/", "h", "?", "z", "=", "1", "&", "x", ";", "y", "&",
       "a", "%", "2", "6", "b", "=", "x", "y", "z", "&", "z", "=", "1">>,
     <<":", "h">>}

\* what MyLoginAPI may answer: a token, or an error
LoginOutcomes ==
    {[token |-> "token1", err |-> NIL],
     [token |-> "", err |-> "invalid credentials"]}

\* what http.Client.Do may answer: a response, an error, or (when the redirect
\* policy stops the chain) the last response together with an error
DoOutcomes ==
    {[res |-> "response200", err |-> NIL],
     [res |-> NIL, err |-> "connection refused"],
     [res |-> "response302", err |-> "stopped after 10 redirects"]}

----------------------------------------------------------------------------
(* Options: a closure is the record of the function literal it was made    *)
(* from and the arguments it captured                                      *)

WithMethod(httpMethod) == [fn |-> "WithMethod", httpMethod |-> httpMethod]

WithBody(body) == [fn |-> "WithBody", body |-> body]

WithUseInvalidToken(useInvalidToken) ==
    [fn |-> "WithUseInvalidToken", useInvalidToken |-> useInvalidToken]

WithQueryParam(queryParam) == [fn |-> "WithQueryParam", queryParam |-> queryParam]

WithAcceptHeader(acceptHeader) == [fn |-> "WithAcceptHeader", acceptHeader |-> acceptHeader]

WithTwoValues(acceptHeader, httpMethod) ==
    [fn |-> "WithTwoValues", acceptHeader |-> acceptHeader, httpMethod |-> httpMethod]

\* o(params): the body of the function literal, run on the struct s
CallOption(o, s) ==
    CASE o.fn = "WithMethod" -> [s EXCEPT !.httpMethod = o.httpMethod]
      [] o.fn = "WithBody" -> [s EXCEPT !.body = o.body]
      [] o.fn = "WithUseInvalidToken" -> [s EXCEPT !.useInvalidToken = o.useInvalidToken]
      [] o.fn = "WithQueryParam" -> [s EXCEPT !.queryParam = o.queryParam]
      [] o.fn = "WithAcceptHeader" -> [s EXCEPT !.acceptHeader = o.acceptHeader]
      [] o.fn = "WithTwoValues" ->
            [s EXCEPT !.httpMethod = o.httpMethod, !.acceptHeader = o.acceptHeader]

\* the option values a caller can build from the inputs above
OptionValues ==
    {WithMethod(m) : m \in Methods}
    \cup {WithBody(b) : b \in Bodies}
    \cup {WithUseInvalidToken(u) : u \in BOOLEAN}
    \cup {WithQueryParam(q) : q \in QueryRefs}
    \cup {WithAcceptHeader(a) : a \in AcceptHeaders}
    \cup {WithTwoValues(a, m) : a \in AcceptHeaders, m \in Methods}

OptionLists == UNION {[1..n -> OptionValues] : n \in 0..MaxOptions}

\* for _, o := range options { o(params) }, from the i-th option on
RECURSIVE RangeOptions(_, _, _)
RangeOptions(params, opts, i) ==
    IF i > Len(opts) THEN params
    ELSE RangeOptions(CallOption(opts[i], params), opts, i + 1)

\* a constructor that forgets the acceptHeader default
DefaultParamsNoAccept(params) ==
    [params EXCEPT !.httpMethod = MethodGet, !.useInvalidToken = FALSE]

\* the defaults assigned before the loop
DefaultParams(params) ==
    [params EXCEPT !.httpMethod = MethodGet,
                   !.useInvalidToken = FALSE,
                   !.acceptHeader = "application/json"]

\* a constructor that assigns the defaults after running the options
NewOptReqParamsDefaultsLast(opts) == DefaultParams(RangeOptions(ZeroParams, opts, 1))

NewOptReqParams(opts) == RangeOptions(DefaultParams(ZeroParams), opts, 1)

----------------------------------------------------------------------------
(* net/url: query strings, character by character *)

\* the characters used, in byte order (sort.Strings compares bytes)
Alphabet ==
    <<" ", "%", "&", "+", "0", "1", "2", "3", "5", ";", "=", "B", "D",
      "a", "b", "e", "g", "m", "n", "x", "y", "z">>

ByteRank(c) == CHOOSE i \in 1..Len(Alphabet) : Alphabet[i] = c

\* s < t as Go compares strings
RECURSIVE StringLess(_, _)
StringLess(s, t) ==
    IF t = << >> THEN FALSE
    ELSE IF s = << >> THEN TRUE
    ELSE IF Head(s) = Head(t) THEN StringLess(Tail(s), Tail(t))
    ELSE ByteRank(Head(s)) < ByteRank(Head(t))

\* url.QueryEscape on one byte: letters and digits stay, space becomes "+",
\* anything else becomes %XX
EscapeByte(c) ==
    CASE c = " " -> <<"+">>
      [] c = "%" -> <<"%", "2", "5">>
      [] c = "&" -> <<"%", "2", "6">>
      [] c = "+" -> <<"%", "2", "B">>
      [] c = ";" -> <<"%", "3", "B">>
      [] c = "=" -> <<"%", "3", "D">>
      [] OTHER -> <<c>>

RECURSIVE QueryEscape(_)
QueryEscape(s) ==
    IF s = << >> THEN << >> ELSE EscapeByte(Head(s)) \o QueryEscape(Tail(s))

\* the byte a %XX triple stands for; "?" when XX is no hex pair of the alphabet
UnhexByte(hi, lo) ==
    CASE hi = "2" /\ lo = "0" -> " "
      [] hi = "2" /\ lo = "5" -> "%"
      [] hi = "2" /\ lo = "6" -> "&"
      [] hi = "2" /\ lo = "B" -> "+"
      [] hi = "3" /\ lo = "B" -> ";"
      [] hi = "3" /\ lo = "D" -> "="
      [] OTHER -> "?"

\* url.QueryUnescape: [ok, s]; a "%" not followed by a hex pair is an error
RECURSIVE QueryUnescape(_)
QueryUnescape(s) ==
    IF s = << >> THEN [ok |-> TRUE, s |-> << >>]
    ELSE IF Head(s) = "%" THEN
        IF Len(s) < 3 \/ UnhexByte(s[2], s[3]) = "?" THEN [ok |-> FALSE, s |-> << >>]
        ELSE LET rest == QueryUnescape(SubSeq(s, 4, Len(s)))
             IN [ok |-> rest.ok, s |-> <<UnhexByte(s[2], s[3])>> \o rest.s]
    ELSE LET rest == QueryUnescape(Tail(s))
         IN [ok |-> rest.ok, s |-> <<IF Head(s) = "+" THEN " " ELSE Head(s)>> \o rest.s]

\* position of the first sep in s, 0 when there is none
IndexByte(s, sep) ==
    IF \E i \in 1..Len(s) : s[i] = sep
    THEN CHOOSE i \in 1..Len(s) : s[i] = sep /\ \A j \in 1..(i - 1) : s[j] # sep
    ELSE 0

\* url.Values is map[string][]string: a function from the keys present
EmptyValues == [k \in {} |-> << >>]

\* Values.Add(key, value)
ValuesAdd(v, key, value) ==
    [k \in DOMAIN v \cup {key} |->
        IF k = key
        THEN (IF key \in DOMAIN v THEN v[key] ELSE << >>) \o <<value>>
        ELSE v[k]]

\* url.ParseQuery, keeping what it parsed and dropping the pairs in error, which
\* is what URL.Query() returns
RECURSIVE ParseQuery(_, _)
ParseQuery(v, query) ==
    IF query = << >> THEN v
    ELSE LET amp == IndexByte(query, "&")
             piece == IF amp = 0 THEN query ELSE SubSeq(query, 1, amp - 1)
             rest == IF amp = 0 THEN << >> ELSE SubSeq(query, amp + 1, Len(query))
             eq == IndexByte(piece, "=")
             key == QueryUnescape(IF eq = 0 THEN piece ELSE SubSeq(piece, 1, eq - 1))
             value == QueryUnescape(IF eq = 0 THEN << >>
                                    ELSE SubSeq(piece, eq + 1, Len(piece)))
         IN IF piece = << >> \/ IndexByte(piece, ";") # 0 \/ ~key.ok \/ ~value.ok
            THEN ParseQuery(v, rest)
            ELSE ParseQuery(ValuesAdd(v, key.s, value.s), rest)

URLQuery(rawQuery) == ParseQuery(EmptyValues, rawQuery)

\* key=value for each value of one key, joined by "&"
RECURSIVE EncodeKey(_, _, _)
EncodeKey(key, vs, i) ==
    IF i > Len(vs) THEN << >>
    ELSE (IF i > 1 THEN <<"&">> ELSE << >>)
         \o QueryEscape(key) \o <<"=">> \o QueryEscape(vs[i])
         \o EncodeKey(key, vs, i + 1)

\* Values.Encode(): the keys in sorted order
RECURSIVE EncodeKeys(_, _)
EncodeKeys(v, keys) ==
    IF keys = {} THEN << >>
    ELSE LET k == CHOOSE x \in keys : \A y \in keys \ {x} : StringLess(x, y)
             tail == EncodeKeys(v, keys \ {k})
             head == EncodeKey(k, v[k], 1)
         IN IF head = << >> THEN tail
            ELSE IF tail = << >> THEN head
            ELSE head \o <<"&">> \o tail

ValuesEncode(v) == EncodeKeys(v, DOMAIN v)

----------------------------------------------------------------------------
(* net/http: building a request *)

\* validMethod: a non-empty string of HTTP token characters
HTTPTokens == {MethodGet, MethodPost}
validMethod(method) == method \in HTTPTokens

\* url.Parse: a leading colon is "missing protocol scheme"; the text after the
\* first "?" is the raw query
URLParse(rawURL) ==
    IF rawURL # << >> /\ Head(rawURL) = ":"
    THEN [err |-> "missing protocol scheme", Base |-> << >>, RawQuery |-> << >>]
    ELSE LET i == IndexByte(rawURL, "?")
         IN [err |-> NIL,
             Base |-> IF i = 0 THEN rawURL ELSE SubSeq(rawURL, 1, i - 1),
             RawQuery |-> IF i = 0 THEN << >> ELSE SubSeq(rawURL, i + 1, Len(rawURL))]

\* http.Header is map[string][]string
EmptyHeader == [k \in {} |-> << >>]

\* Header.Add(key, value)
HeaderAdd(h, key, value) ==
    [k \in DOMAIN h \cup {key} |->
        IF k = key
        THEN (IF key \in DOMAIN h THEN h[key] ELSE << >>) \o <<value>>
        ELSE h[k]]

NoRequest == [Method |-> "", URL |-> URLParse(<< >>), Body |-> NIL, Header |-> EmptyHeader]

\* http.NewRequestWithContext(ctx, method, url, body): [err, req]
NewRequestWithContext(method, url, body) ==
    LET m == IF method = "" THEN MethodGet ELSE method
        u == URLParse(url)
    IN IF ~validMethod(m) THEN [err |-> "net/http: invalid method", req |-> NoRequest]
       ELSE IF u.err # NIL THEN [err |-> u.err, req |-> NoRequest]
       ELSE [err |-> NIL,
             req |-> [Method |-> m, URL |-> u, Body |-> body, Header |-> EmptyHeader]]

----------------------------------------------------------------------------
(* CustomHTTPRequest *)

\* what a call produced: the two results, or a run-time panic
NoReturn == [res |-> NIL, err |-> NIL, panic |-> FALSE]
Return(res, err) == [res |-> res, err |-> err, panic |-> FALSE]
Panic == [res |-> NIL, err |-> NIL, panic |-> TRUE]

\* entries of the log of collaborator invocations
LoginCall(email, passwd, out) ==
    [op |-> "MyLoginAPI", email |-> email, passwd |-> passwd, out |-> out]
NewRequestCall(out) == [op |-> "NewRequestWithContext", out |-> out]
DoCall(req, out) == [op |-> "Do", req |-> req, out |-> out]

\* fmt.Sprintf("Bearer %s", tok)
Bearer(tok) == "Bearer " \o tok

\* fmt.Sprintf("error in login with user provided credentials %v", err)
LoginErrorMessage(err) == "error in login with user provided credentials " \o err

\* a token resolution that logs in whatever the flag says
ResolveAuthAlwaysLogin(cfg, email, passwd, login) ==
    IF login.err # NIL
    THEN [calls |-> <<LoginCall(email, passwd, login)>>,
          err |-> LoginErrorMessage(login.err), authString |-> ""]
    ELSE [calls |-> <<LoginCall(email, passwd, login)>>,
          err |-> NIL, authString |-> Bearer(login.token)]

\* a token resolution that drops the login error and goes on
ResolveAuthIgnoresLoginError(cfg, email, passwd, login) ==
    IF cfg.useInvalidToken
    THEN [calls |-> << >>, err |-> NIL, authString |-> Bearer("Invalid Token")]
    ELSE [calls |-> <<LoginCall(email, passwd, login)>>,
          err |-> NIL, authString |-> Bearer(login.token)]

\* the token resolution: [calls, err, authString]
ResolveAuth(cfg, email, passwd, login) ==
    IF cfg.useInvalidToken
    THEN [calls |-> << >>, err |-> NIL, authString |-> Bearer("Invalid Token")]
    ELSE IF login.err # NIL
    THEN [calls |-> <<LoginCall(email, passwd, login)>>,
          err |-> LoginErrorMessage(login.err), authString |-> ""]
    ELSE [calls |-> <<LoginCall(email, passwd, login)>>,
          err |-> NIL, authString |-> Bearer(login.token)]

\* headers where Content-Type follows the configured accept header
AddHeadersContentTypeFromAccept(req, cfg, authString) ==
    [req EXCEPT !.Header =
        HeaderAdd(HeaderAdd(HeaderAdd(@, "Accept", cfg.acceptHeader),
                            "Authorization", authString),
                  "Content-Type", cfg.acceptHeader)]

\* the three req.Header.Add calls
AddHeaders(req, cfg, authString) ==
    [req EXCEPT !.Header =
        HeaderAdd(HeaderAdd(HeaderAdd(@, "Accept", cfg.acceptHeader),
                            "Authorization", authString),
                  "Content-Type", "application/json")]

\* for k := range m { q.Add(k, m[k]) }: each key of a Go map is visited once, and
\* adding under distinct keys gives the same Values in every iteration order
RECURSIVE RangeQueryParam(_, _, _)
RangeQueryParam(q, m, keys) ==
    IF keys = {} THEN q
    ELSE LET k == CHOOSE x \in keys : TRUE
         IN RangeQueryParam(ValuesAdd(q, k, m[k]), m, keys \ {k})

\* a query-parameter block that re-reads the URL's query for every key, so that
\* only one key of the map survives
BuildQueryOneKey(req, cfg, m) ==
    IF cfg.queryParam # NIL /\ DOMAIN m # {}
    THEN LET k == CHOOSE x \in DOMAIN m : TRUE
         IN [req EXCEPT !.URL.RawQuery =
                ValuesEncode(ValuesAdd(URLQuery(req.URL.RawQuery), k, m[k]))]
    ELSE req

\* the query-parameter block; m is the map cfg.queryParam refers to
BuildQuery(req, cfg, m) ==
    IF cfg.queryParam # NIL
    THEN [req EXCEPT !.URL.RawQuery =
            ValuesEncode(RangeQueryParam(URLQuery(req.URL.RawQuery), m, DOMAIN m))]
    ELSE req

\* a send that tries once more after a transport error
FireRequestRetry(req, do) ==
    [calls |-> IF do.err # NIL THEN <<DoCall(req, do), DoCall(req, do)>>
               ELSE <<DoCall(req, do)>>,
     ret |-> IF do.err # NIL THEN Return(NIL, do.err) ELSE Return(do.res, do.err)]

\* a send that hands back whatever Do returned
FireRequestKeepsResponse(req, do) ==
    [calls |-> <<DoCall(req, do)>>, ret |-> Return(do.res, do.err)]

\* res, err := client.Do(req) and the two returns after it: [calls, ret]
FireRequest(req, do) ==
    [calls |-> <<DoCall(req, do)>>,
     ret |-> IF do.err # NIL THEN Return(NIL, do.err) ELSE Return(do.res, do.err)]

\* the body of CustomHTTPRequest for a non-nil p, given what the collaborators
\* answer: [calls, ret]
RunRequest(url, email, passwd, cfg, m, login, do) ==
    LET auth == ResolveAuth(cfg, email, passwd, login)
        made == NewRequestWithContext(cfg.httpMethod, url, cfg.body)
        fired == FireRequest(BuildQuery(AddHeaders(made.req, cfg, auth.authString), cfg, m),
                             do)
    IN IF auth.err # NIL THEN [calls |-> auth.calls, ret |-> Return(NIL, auth.err)]
       ELSE IF made.err # NIL
       THEN [calls |-> auth.calls \o <<NewRequestCall(made.err)>>,
             ret |-> Return(NIL, made.err)]
       ELSE [calls |-> auth.calls \o <<NewRequestCall(NIL)>> \o fired.calls,
             ret |-> fired.ret]

\* one call CustomHTTPRequest(ctx, url, email, passwd, cfg); reading
\* p.useInvalidToken through a nil p panics before anything else happens
CustomHTTPRequest(url, email, passwd, cfg) ==
    /\ args' = [url |-> url, email |-> email, passwd |-> passwd]
    /\ IF cfg.isNil
       THEN ret' = Panic /\ calls' = << >>
       ELSE \E login \in LoginOutcomes, do \in DoOutcomes :
               LET r == RunRequest(url, email, passwd, cfg, qmap, login, do)
               IN ret' = r.ret /\ calls' = r.calls

----------------------------------------------------------------------------
(* The caller, as main does it: fill the map, construct, call *)

NoArgs == [url |-> << >>, email |-> "", passwd |-> ""]

\* q := make(map[string]string)
EmptyMap == [k \in {} |-> << >>]

Init ==
    /\ pc = "setup"
    /\ args = NoArgs
    /\ qmap = EmptyMap
    /\ options = << >>
    /\ p = NilParams
    /\ calls = << >>
    /\ ret = NoReturn

\* q[k] = v
MapWrite ==
    /\ pc = "setup"
    /\ \E k \in QueryKeys, v \in QueryVals :
          qmap' = [x \in DOMAIN qmap \cup {k} |-> IF x = k THEN v ELSE qmap[x]]
    /\ UNCHANGED <<pc, args, options, p, calls, ret>>

\* p := NewOptReqParams(options...)
Construct ==
    /\ pc = "setup"
    /\ \E opts \in OptionLists :
          /\ options' = opts
          /\ p' = NewOptReqParams(opts)
    /\ pc' = "built"
    /\ UNCHANGED <<args, qmap, calls, ret>>

\* CustomHTTPRequest(ctx, url, email, passwd, nil)
CallWithNil ==
    /\ pc = "setup"
    /\ \E url \in Urls, email \in Emails, passwd \in Passwds :
          CustomHTTPRequest(url, email, passwd, NilParams)
    /\ pc' = "done"
    /\ UNCHANGED <<qmap, options, p>>

\* a call whose query loop deletes the keys it has consumed from the map
CallWithParamsConsumesMap ==
    /\ pc = "built"
    /\ \E url \in Urls, email \in Emails, passwd \in Passwds :
          CustomHTTPRequest(url, email, passwd, p)
    /\ pc' = "done"
    /\ qmap' = IF p.queryParam # NIL THEN EmptyMap ELSE qmap
    /\ UNCHANGED <<options, p>>

\* CustomHTTPRequest(ctx, url, email, passwd, p)
CallWithParams ==
    /\ pc = "built"
    /\ \E url \in Urls, email \in Emails, passwd \in Passwds :
          CustomHTTPRequest(url, email, passwd, p)
    /\ pc' = "done"
    /\ UNCHANGED <<qmap, options, p>>

Next == MapWrite \/ Construct \/ CallWithNil \/ CallWithParams

Spec == Init /\ [][Next]_vars

----------------------------------------------------------------------------
(* Properties *)

\* positions in the log of the invocations of one collaborator
LoginCalls == {i \in DOMAIN calls : calls[i].op = "MyLoginAPI"}
NewRequestCalls == {i \in DOMAIN calls : calls[i].op = "NewRequestWithContext"}
DoCalls == {i \in DOMAIN calls : calls[i].op = "Do"}

\* the call is over and was given a constructed configuration
CalledWithParams == pc = "done" /\ ~p.isNil

\* s contains sub, for the strings that occur as error messages
LoginErrorText == "error in login with user provided credentials"
MessageParts ==
    {a \o b : a \in {"", " ", LoginErrorText, LoginErrorText \o " "},
              b \in {""} \cup {o.err : o \in {x \in LoginOutcomes : x.err # NIL}}}
Contains(s, sub) == \E pre \in MessageParts, post \in MessageParts : s = pre \o sub \o post

\* how many times the pair key=value occurs in parsed query values
PairCount(v, key, value) ==
    IF key \in DOMAIN v THEN Cardinality({i \in DOMAIN v[key] : v[key][i] = value}) ELSE 0

\* C1: a call with a nil configuration does not fail because of it and behaves
\* as a call with NewOptReqParams() would: same login invocation, same request
\* (GET, Accept application/json, no body, no added query), same results.
C1_NilConfigBehavesAsDefault ==
    (pc = "done" /\ p.isNil) =>
        /\ ~ret.panic
        /\ \E login \in LoginOutcomes, do \in DoOutcomes :
              LET r == RunRequest(args.url, args.email, args.passwd,
                                  NewOptReqParams(<< >>), qmap, login, do)
              IN ret = r.ret /\ calls = r.calls

\* the fields an option writes are the ones it captured an argument for
Touches(o) == DOMAIN o \ {"fn"}
Writers(f) == {i \in DOMAIN options : f \in Touches(options[i])}
LastWriter(f) == CHOOSE i \in Writers(f) : \A j \in Writers(f) : j <= i

\* C2: after NewOptReqParams(options...), every field of the configuration has
\* the value given by the last option in the list that touches the field, and a
\* field no option touches has its default.
C2_LastWriterWins ==
    (pc # "setup" /\ ~p.isNil) =>
        LET default == [httpMethod |-> "GET", body |-> NIL, useInvalidToken |-> FALSE,
                        queryParam |-> NIL, acceptHeader |-> "application/json"]
        IN \A f \in DOMAIN default :
              p[f] = IF Writers(f) = {} THEN default[f] ELSE options[LastWriter(f)][f]

\* two options that both write the method, with different values
C2_Witness ==
    /\ pc = "built"
    /\ Len(options) = 2
    /\ options[1].fn = "WithTwoValues"
    /\ options[2].fn = "WithMethod"
    /\ options[1].httpMethod # options[2].httpMethod

\* C3: NewOptReqParams() with no option returns method GET, useInvalidToken
\* false, acceptHeader "application/json", no body and no query parameters.
C3_ZeroOptionsGiveDefaults ==
    (pc = "built" /\ options = << >>) =>
        p = [isNil |-> FALSE, httpMethod |-> "GET", body |-> NIL,
             useInvalidToken |-> FALSE, queryParam |-> NIL,
             acceptHeader |-> "application/json"]

C3_Witness == pc = "built" /\ options = << >> /\ ~p.isNil

\* C4: a call whose configuration has useInvalidToken = true never invokes
\* MyLoginAPI, and the request it sends has Authorization "Bearer Invalid Token",
\* whatever email and passwd are.
C4_InvalidTokenSkipsLogin ==
    (CalledWithParams /\ p.useInvalidToken) =>
        /\ LoginCalls = {}
        /\ \A i \in DoCalls :
              calls[i].req.Header["Authorization"] = <<"Bearer Invalid Token">>

C4_Witness ==
    /\ CalledWithParams /\ p.useInvalidToken
    /\ args.email = "other_addr"
    /\ DoCalls # {}

\* C5: when useInvalidToken is false and MyLoginAPI fails, the call returns no
\* response and an error whose text contains "error in login with user provided
\* credentials" and the login error, and neither NewRequestWithContext nor Do is
\* reached.
C5_LoginFailureStopsTheCall ==
    \A i \in LoginCalls :
        (CalledWithParams /\ ~p.useInvalidToken /\ calls[i].out.err # NIL) =>
            /\ ret.res = NIL
            /\ ret.err # NIL
            /\ Contains(ret.err, LoginErrorText)
            /\ Contains(ret.err, calls[i].out.err)
            /\ NewRequestCalls = {}
            /\ DoCalls = {}

C5_Witness ==
    /\ CalledWithParams /\ ~p.useInvalidToken
    /\ \E i \in LoginCalls : calls[i].out.err = "invalid credentials"
    /\ ret.err # NIL

\* C6 as stated: the query string of the request sent contains each pair of the
\* queryParameters mapping exactly once.
C6_EachPairExactlyOnce ==
    \A i \in DoCalls :
        (CalledWithParams /\ p.queryParam # NIL) =>
            \A k \in DOMAIN qmap :
                PairCount(URLQuery(calls[i].req.URL.RawQuery), k, qmap[k]) = 1

\* C6 amended: the query string of the request sent contains each pair of the
\* queryParameters mapping exactly once more than the query string of the target
\* URL contains it, hence exactly once when the target URL does not hold the pair.
C6_EachPairOnceMore ==
    \A i \in DoCalls :
        (CalledWithParams /\ p.queryParam # NIL) =>
            \A k \in DOMAIN qmap :
                PairCount(URLQuery(calls[i].req.URL.RawQuery), k, qmap[k])
                    = PairCount(URLQuery(URLParse(args.url).RawQuery), k, qmap[k]) + 1

\* a request sent with two pairs, one of which needs escaping, to a URL that
\* already holds one of them
C6_Witness ==
    /\ CalledWithParams /\ p.queryParam # NIL
    /\ DoCalls # {}
    /\ Cardinality(DOMAIN qmap) = 2
    /\ qmap[<<"a", "&", "b">>] = <<"1", " ", "=", "%">>
    /\ PairCount(URLQuery(URLParse(args.url).RawQuery),
                 <<"n", "a", "m", "e">>, qmap[<<"n", "a", "m", "e">>]) = 1

\* C7: every request sent carries exactly three headers: Accept with the
\* configured acceptHeader, Authorization with "Bearer " and the token resolved
\* (or the invalid-token literal), and Content-Type "application/json".
C7_ExactlyThreeHeaders ==
    \A i \in DoCalls :
        CalledWithParams =>
            LET h == calls[i].req.Header
                token == IF p.useInvalidToken THEN "Invalid Token"
                         ELSE calls[CHOOSE j \in LoginCalls : TRUE].out.token
            IN /\ DOMAIN h = {"Accept", "Authorization", "Content-Type"}
               /\ h["Accept"] = <<p.acceptHeader>>
               /\ h["Authorization"] = <<"Bearer " \o token>>
               /\ h["Content-Type"] = <<"application/json">>

C7_Witness ==
    /\ CalledWithParams /\ ~p.useInvalidToken
    /\ p.acceptHeader = "text/xml"
    /\ DoCalls # {}

\* C8: a call sends at most one request and invokes MyLoginAPI at most once,
\* also after a login, construction or transport failure, and sends exactly one
\* request when the token is resolved and the request is constructed.
C8_SingleAttempt ==
    pc = "done" =>
        /\ Cardinality(DoCalls) <= 1
        /\ Cardinality(LoginCalls) <= 1
        /\ Cardinality(NewRequestCalls) <= 1
        /\ ( /\ ~p.isNil
             /\ p.useInvalidToken \/ \E i \in LoginCalls : calls[i].out.err = NIL
             /\ \E i \in NewRequestCalls : calls[i].out = NIL )
           => Cardinality(DoCalls) = 1

\* a transport failure after a successful login
C8_Witness ==
    /\ CalledWithParams
    /\ \E i \in LoginCalls : calls[i].out.err = NIL
    /\ \E i \in DoCalls : calls[i].out.err = "connection refused"

\* C9: when NewRequestWithContext or Do fails, the call returns no response and
\* exactly that error (the login error, in contrast, is wrapped); when Do
\* succeeds it returns the response and a nil error; every return has exactly
\* one of response and error.
C9_ErrorsSurfaceUnchanged ==
    (pc = "done" /\ ~ret.panic) =>
        /\ \A i \in NewRequestCalls :
              calls[i].out # NIL => ret.res = NIL /\ ret.err = calls[i].out
        /\ \A i \in DoCalls :
              IF calls[i].out.err # NIL
              THEN ret.res = NIL /\ ret.err = calls[i].out.err
              ELSE ret.res = calls[i].out.res /\ ret.err = NIL
        /\ \A i \in LoginCalls :
              calls[i].out.err # NIL => ret.err # NIL /\ ret.err # calls[i].out.err
        /\ (ret.res = NIL) # (ret.err = NIL)

\* Do answered with a response and an error at once
C9_Witness ==
    /\ CalledWithParams
    /\ \E i \in DoCalls : calls[i].out.res # NIL /\ calls[i].out.err # NIL
    /\ ret.res = NIL

\* C10: once NewOptReqParams has returned the configuration, no step changes
\* any of its fields or the contents of the map its queryParam refers to; in
\* particular the call of CustomHTTPRequest leaves them as they were, on every
\* path.
C10_ParamsUnchangedByCall ==
    [][pc = "built" => (p' = p /\ qmap' = qmap)]_vars

\* a successful call with a configuration that refers to a non-empty map
C10_Witness ==
    /\ CalledWithParams
    /\ p.queryParam # NIL /\ qmap # EmptyMap
    /\ p.body # NIL
    /\ ret.err = NIL

====
